---- MODULE Spec2Model ----
(***************************************************************************)
(* Recipe book (PySide6, MVC): the SQLite store (model/database.py), the   *)
(* repository over it (model/recipe_model.py), the view's form and list    *)
(* state (view/main_window.py) and the controller's intent handlers        *)
(* (controller/recipe_controller.py).                                      *)
(*                                                                         *)
(* Text is a sequence of one-character strings, so that str.strip() is     *)
(* computed and not assumed.  A Python Optional value is None (the empty   *)
(* tuple) or Some(x) (the one-element tuple).                              *)
(***************************************************************************)
EXTENDS Integers, Sequences, FiniteSets, TLC

\* The largest id the store hands out in a run: inserts stop at MaxId.
MaxId == 2

None == <<>>
Some(x) == <<x>>

\* Python truthiness of an Optional int / Optional str, as `if recipe_id:`
\* and `if recipe.image_path:` evaluate it.
TruthyId(o) == o # None /\ o[1] # 0
TruthyStr(o) == o # None /\ o[1] # ""

(***************************************************************************)
(* str.strip(): drop leading and trailing whitespace, keep the inside.     *)
(***************************************************************************)
IsSpace(c) == c \in {" ", "\t", "\n", "\r"}

RECURSIVE lstrip(_)
lstrip(s) ==
    IF s = <<>> THEN <<>>
    ELSE IF IsSpace(Head(s)) THEN lstrip(Tail(s))
    ELSE s

RECURSIVE rstrip(_)
rstrip(s) ==
    IF s = <<>> THEN <<>>
    ELSE IF IsSpace(s[Len(s)]) THEN rstrip(SubSeq(s, 1, Len(s) - 1))
    ELSE s

strip(s) == rstrip(lstrip(s))

(***************************************************************************)
(* The inputs.  Form texts are typed as (title, ingredients, instructions) *)
(* triples; the image path comes from the file dialog.                     *)
(***************************************************************************)
BlankText == <<" ", "\t">>
PaddedTitle == <<" ", "a", " ", "b", "\n">>
PlainTitle == <<"c">>

FormInputs ==
    { <<BlankText, <<"x">>, <<>>>>,
      <<PaddedTitle, <<" ", "x">>, <<"s", " ">>>>,
      <<PlainTitle, <<>>, <<>>>> }

ImagePaths == {"p.png"}
ImageInputs == {None} \cup {Some(p) : p \in ImagePaths}

\* Ids a caller may pass: every id the store can hold and one it never holds.
IdInputs == 1..(MaxId + 1)

(***************************************************************************)
(* Data layer: model/database.py.  The table is the sequence of its rows   *)
(* in rowid order, each row the tuple                                      *)
(* <<id, title, ingredients, instructions, image_path>>; seq is the        *)
(* AUTOINCREMENT counter SQLite keeps in sqlite_sequence.                  *)
(***************************************************************************)
RowIds(rows) == {rows[k][1] : k \in 1..Len(rows)}

MaxOf(S) == IF S = {} THEN 0 ELSE CHOOSE m \in S : \A x \in S : x <= m

\* create_table on a new file: no rows, nothing handed out yet.
create_table == [rows |-> <<>>, seq |-> 0]

\* INTEGER PRIMARY KEY without AUTOINCREMENT: one more than the largest rowid
\* now in the table (a deleted last row's id comes back).
NextIdReusing(d) == MaxOf(RowIds(d.rows)) + 1

\* INTEGER PRIMARY KEY AUTOINCREMENT: one more than the largest rowid the
\* table has ever held.
NextId(d) == MaxOf(RowIds(d.rows) \cup {d.seq}) + 1

\* INSERT INTO recipes (...) VALUES (?, ?, ?, ?); commit.  title is TEXT NOT
\* NULL, which any text satisfies, the empty one included.
RecipeDatabase_insert_recipe(d, title, ingredients, instructions, image_path) ==
    [rows |-> Append(d.rows,
                     <<NextId(d), title, ingredients, instructions, image_path>>),
     seq |-> NextId(d)]

\* SELECT * FROM recipes: the rows in rowid order.
RecipeDatabase_get_all_recipes(d) == d.rows

\* UPDATE recipes SET ... with no WHERE clause: every row is overwritten.
UpdateEveryRow(d, recipe_id, title, ingredients, instructions, image_path) ==
    [d EXCEPT !.rows =
        [k \in 1..Len(d.rows) |->
            <<d.rows[k][1], title, ingredients, instructions, image_path>>]]

\* An upsert: the row is overwritten, or inserted when no row has the id.
UpdateOrInsert(d, recipe_id, title, ingredients, instructions, image_path) ==
    IF recipe_id \in RowIds(d.rows)
    THEN [d EXCEPT !.rows =
            [k \in 1..Len(d.rows) |->
                IF d.rows[k][1] = recipe_id
                THEN <<recipe_id, title, ingredients, instructions, image_path>>
                ELSE d.rows[k]]]
    ELSE RecipeDatabase_insert_recipe(d, title, ingredients, instructions,
                                      image_path)

\* UPDATE recipes SET title=?, ingredients=?, instructions=?, image_path=?
\* WHERE id=?; commit.
RecipeDatabase_update_recipe(d, recipe_id, title, ingredients, instructions, image_path) ==
    [d EXCEPT !.rows =
        [k \in 1..Len(d.rows) |->
            IF d.rows[k][1] = recipe_id
            THEN <<d.rows[k][1], title, ingredients, instructions, image_path>>
            ELSE d.rows[k]]]

IsNotRow(row, recipe_id) == row[1] # recipe_id

IsAboveRow(row, recipe_id) == row[1] > recipe_id

\* DELETE FROM recipes WHERE id<=?: the rows up to the id go too.
DeleteUpTo(d, recipe_id) ==
    [d EXCEPT !.rows = SelectSeq(d.rows, LAMBDA row : IsAboveRow(row, recipe_id))]

\* DELETE FROM recipes WHERE id=?; commit.  sqlite_sequence is left alone.
RecipeDatabase_delete_recipe(d, recipe_id) ==
    [d EXCEPT !.rows = SelectSeq(d.rows, LAMBDA row : IsNotRow(row, recipe_id))]

(***************************************************************************)
(* Model layer: model/recipe_model.py.                                     *)
(***************************************************************************)
\* Recipe(*row): the row's columns taken by position.
Recipe(id, title, ingredients, instructions, image_path) ==
    [id |-> id, title |-> title, ingredients |-> ingredients,
     instructions |-> instructions, image_path |-> image_path]

RecipeOfRow(row) == Recipe(row[1], row[2], row[3], row[4], row[5])

\* An add that strips the texts itself before the insert.
AddStripped(d, title, ingredients, instructions, image_path) ==
    RecipeDatabase_insert_recipe(d, strip(title), strip(ingredients),
                                 strip(instructions), image_path)

\* An add that refuses a blank title.
AddUnlessBlank(d, title, ingredients, instructions, image_path) ==
    IF strip(title) = <<>> THEN d
    ELSE RecipeDatabase_insert_recipe(d, title, ingredients, instructions,
                                      image_path)

\* RecipeModel.add_recipe: hands the four values to the insert as they are.
RecipeModel_add_recipe(d, title, ingredients, instructions, image_path) ==
    RecipeDatabase_insert_recipe(d, title, ingredients, instructions, image_path)

\* What RecipeModel.add_recipe (and insert_recipe under it) returns: neither
\* has a return statement.
AddReturnsNewId(d) == Some(NextId(d))

RecipeModel_add_recipe_result(d) == None

\* RecipeModel.get_all_recipes: one Recipe per row, in the rows' order.
RecipeModel_get_all_recipes(d) ==
    [k \in 1..Len(RecipeDatabase_get_all_recipes(d)) |->
        RecipeOfRow(RecipeDatabase_get_all_recipes(d)[k])]

\* RecipeModel.get_recipe_by_id: the first recipe of get_all_recipes() with
\* the id, or None.
RecipeModel_get_recipe_by_id(d, recipe_id) ==
    LET recipes == RecipeModel_get_all_recipes(d)
        hits == {k \in 1..Len(recipes) : recipes[k].id = recipe_id}
    IN  IF hits = {} THEN None
        ELSE Some(recipes[CHOOSE k \in hits : \A j \in hits : k <= j])

\* RecipeModel.update_recipe: every field of the recipe, keyed by recipe.id.
RecipeModel_update_recipe(d, recipe) ==
    RecipeDatabase_update_recipe(d, recipe.id, recipe.title, recipe.ingredients,
                                 recipe.instructions, recipe.image_path)

\* A delete that removes nothing.
DeleteNothing(d, recipe_id) == d

\* RecipeModel.delete_recipe.
RecipeModel_delete_recipe(d, recipe_id) ==
    RecipeDatabase_delete_recipe(d, recipe_id)

(***************************************************************************)
(* The sample data of main.populate_sample_data.                           *)
(***************************************************************************)
CarbonaraTitle ==
    <<"S","p","a","g","h","e","t","t","i"," ","C","a","r","b","o","n","a","r",
      "a">>

CarbonaraIngredients ==
    <<"S","p","a","g","h","e","t","t","i",","," ","E","g","g","s",","," ","P",
      "a","r","m","e","s","a","n"," ","c","h","e","e","s","e",","," ","B","a",
      "c","o","n",","," ","P","e","p","p","e","r">>

CarbonaraInstructions ==
    <<"1","."," ","B","o","i","l"," ","p","a","s","t","a",".","\n","2",".",
      " ","F","r","y"," ","b","a","c","o","n",".","\n","3","."," ","M","i",
      "x"," ","e","g","g","s"," ","a","n","d"," ","c","h","e","e","s","e",".",
      "\n","4","."," ","C","o","m","b","i","n","e"," ","a","l","l"," ","w",
      "i","t","h"," ","p","a","s","t","a",".">>

CakeTitle ==
    <<"C","h","o","c","o","l","a","t","e"," ","C","a","k","e">>

CakeIngredients ==
    <<"F","l","o","u","r",","," ","C","o","c","o","a"," ","p","o","w","d","e",
      "r",","," ","S","u","g","a","r",","," ","E","g","g","s",","," ","B","u",
      "t","t","e","r",","," ","B","a","k","i","n","g"," ","p","o","w","d","e",
      "r">>

CakeInstructions ==
    <<"1","."," ","M","i","x"," ","d","r","y"," ","i","n","g","r","e","d","i",
      "e","n","t","s",".","\n","2","."," ","A","d","d"," ","w","e","t"," ",
      "i","n","g","r","e","d","i","e","n","t","s",".","\n","3","."," ","B",
      "a","k","e"," ","a","t"," ","1","8","0","°","C"," ","f","o","r"," ","3",
      "5"," ","m","i","n",".">>

\* The two sample images' paths, as os.path.join builds them; each is stored
\* only when os.path.exists finds the file.
CarbonaraImg == "images/carbonara.jpg"
CakeImg == "images/chocolate_cake.jpg"

(***************************************************************************)
(* View layer: view/main_window.py.  The view is the record of the form's  *)
(* three texts, the picked image path, the id loaded in the form, the      *)
(* mode, the three gated buttons, the list's items (title and the id kept  *)
(* in role 32) and the list's current row (0: no current item).            *)
(***************************************************************************)
Modes == {"add", "edit", "view"}

\* set_mode that leaves Save and Cancel enabled when a recipe is only viewed.
set_mode_SaveInView(v, m) ==
    IF m = "add"
    THEN [v EXCEPT !.mode = m, !.add_enabled = TRUE, !.save_enabled = FALSE,
                   !.cancel_enabled = FALSE]
    ELSE IF m = "edit"
    THEN [v EXCEPT !.mode = m, !.add_enabled = FALSE, !.save_enabled = TRUE,
                   !.cancel_enabled = TRUE]
    ELSE [v EXCEPT !.mode = m, !.add_enabled = TRUE, !.save_enabled = TRUE,
                   !.cancel_enabled = TRUE]

\* RecipeMainWindow.set_mode
set_mode(v, m) ==
    IF m = "add"
    THEN [v EXCEPT !.mode = m, !.add_enabled = TRUE, !.save_enabled = FALSE,
                   !.cancel_enabled = FALSE]
    ELSE IF m = "edit"
    THEN [v EXCEPT !.mode = m, !.add_enabled = FALSE, !.save_enabled = TRUE,
                   !.cancel_enabled = TRUE]
    ELSE IF m = "view"
    THEN [v EXCEPT !.mode = m, !.add_enabled = TRUE, !.save_enabled = FALSE,
                   !.cancel_enabled = FALSE]
    ELSE [v EXCEPT !.mode = m]

\* RecipeMainWindow.__init__: the widgets are new, nothing is loaded, and the
\* window starts in add mode.
RecipeMainWindow_init ==
    set_mode([title_input |-> <<>>, ingredients_input |-> <<>>,
              instructions_input |-> <<>>, selected_image_path |-> None,
              current_recipe_id |-> None, mode |-> "add",
              add_enabled |-> TRUE, save_enabled |-> TRUE,
              cancel_enabled |-> TRUE,
              recipe_list |-> <<>>, current_row |-> 0], "add")

\* RecipeMainWindow.get_input_data
get_input_data(v) ==
    <<v.title_input, v.ingredients_input, v.instructions_input,
      v.selected_image_path>>

\* A clear_inputs that empties the form but keeps the loaded recipe's id.
clear_inputs_KeepId(v) ==
    set_mode([v EXCEPT !.title_input = <<>>, !.ingredients_input = <<>>,
                       !.instructions_input = <<>>,
                       !.selected_image_path = None], "add")

\* RecipeMainWindow.clear_inputs
clear_inputs(v) ==
    set_mode([v EXCEPT !.title_input = <<>>, !.ingredients_input = <<>>,
                       !.instructions_input = <<>>,
                       !.selected_image_path = None,
                       !.current_recipe_id = None], "add")

\* RecipeMainWindow.set_image_path
set_image_path(v, path) == [v EXCEPT !.selected_image_path = Some(path)]

\* RecipeMainWindow.update_recipe_list: the list is cleared, which leaves no
\* current item, and gets one item per recipe.
update_recipe_list(v, recipes) ==
    [v EXCEPT !.recipe_list =
                 [k \in 1..Len(recipes) |->
                     [title |-> recipes[k].title, id |-> recipes[k].id]],
              !.current_row = 0]

\* RecipeMainWindow.get_selected_recipe_id
get_selected_recipe_id(v) ==
    IF v.current_row = 0 THEN None ELSE Some(v.recipe_list[v.current_row].id)

\* RecipeMainWindow.get_current_recipe_id
get_current_recipe_id(v) == v.current_recipe_id

\* RecipeMainWindow.show_recipe_details
show_recipe_details(v, recipe) ==
    [v EXCEPT !.current_recipe_id = Some(recipe.id),
              !.title_input = recipe.title,
              !.ingredients_input = recipe.ingredients,
              !.instructions_input = recipe.instructions,
              !.selected_image_path =
                  IF TruthyStr(recipe.image_path) THEN recipe.image_path
                  ELSE None]

(***************************************************************************)
(* The running application: the store, the view, and what the run has done *)
(* to the store so far (added: completed add_recipe calls; removed:        *)
(* delete_recipe calls whose id had a row; deleted: the ids delete_recipe  *)
(* was called with).  Handlers are operators on this record.               *)
(***************************************************************************)
App(d, v, na, nr, del) ==
    [db |-> d, view |-> v, added |-> na, removed |-> nr, deleted |-> del]

\* self.model.add_recipe(...)
Call_add_recipe(a, title, ingredients, instructions, image_path) ==
    [a EXCEPT !.db = RecipeModel_add_recipe(@, title, ingredients, instructions,
                                            image_path),
              !.added = @ + 1]

\* self.model.update_recipe(recipe)
Call_update_recipe(a, recipe) ==
    [a EXCEPT !.db = RecipeModel_update_recipe(@, recipe)]

\* self.model.delete_recipe(recipe_id)
Call_delete_recipe(a, recipe_id) ==
    [a EXCEPT !.db = RecipeModel_delete_recipe(@, recipe_id),
              !.removed = IF recipe_id \in RowIds(a.db.rows) THEN @ + 1 ELSE @,
              !.deleted = @ \cup {recipe_id}]

(***************************************************************************)
(* Controller layer: controller/recipe_controller.py.                      *)
(***************************************************************************)
\* RecipeController.refresh_recipe_list
refresh_recipe_list(a) ==
    [a EXCEPT !.view = update_recipe_list(@, RecipeModel_get_all_recipes(a.db))]

\* A commit path that strips the title only.
add_recipe_commit_RawTexts(a) ==
    LET inp == get_input_data(a.view)
    IN  IF strip(inp[1]) = <<>> THEN a
        ELSE LET b == Call_add_recipe(a, strip(inp[1]), inp[2], inp[3], inp[4])
                 c == refresh_recipe_list(b)
             IN  [c EXCEPT !.view = clear_inputs(@)]

\* A commit path that leaves the form filled after the add.
add_recipe_commit_NoClear(a) ==
    LET inp == get_input_data(a.view)
    IN  IF strip(inp[1]) = <<>> THEN a
        ELSE refresh_recipe_list(
                 Call_add_recipe(a, strip(inp[1]), strip(inp[2]), strip(inp[3]),
                                 inp[4]))

\* A commit path that clears the form when it rejects a blank title.
add_recipe_commit_ClearOnBlank(a) ==
    LET inp == get_input_data(a.view)
    IN  IF strip(inp[1]) = <<>> THEN [a EXCEPT !.view = clear_inputs(@)]
        ELSE LET b == Call_add_recipe(a, strip(inp[1]), strip(inp[2]),
                                      strip(inp[3]), inp[4])
                 c == refresh_recipe_list(b)
             IN  [c EXCEPT !.view = clear_inputs(@)]

\* The add handler's commit path: strip, add, refresh, clear.
add_recipe_commit(a) ==
    LET inp == get_input_data(a.view)
    IN  IF strip(inp[1]) = <<>> THEN a
        ELSE LET b == Call_add_recipe(a, strip(inp[1]), strip(inp[2]),
                                      strip(inp[3]), inp[4])
                 c == refresh_recipe_list(b)
             IN  [c EXCEPT !.view = clear_inputs(@)]

\* An add handler without the mode guard: it commits the form in any mode.
add_recipe_NoModeGuard(a) == add_recipe_commit(a)

\* RecipeController.add_recipe
RecipeController_add_recipe(a) ==
    IF a.view.mode # "add"
    THEN [a EXCEPT !.view = set_mode(clear_inputs(@), "add")]
    ELSE add_recipe_commit(a)

\* An edit handler that switches to edit mode without loading the recipe.
edit_selected_recipe_ModeOnly(a) ==
    LET recipe_id == get_selected_recipe_id(a.view)
    IN  IF recipe_id = None THEN a
        ELSE [a EXCEPT !.view = set_mode(@, "edit")]

\* RecipeController.edit_selected_recipe
RecipeController_edit_selected_recipe(a) ==
    LET recipe_id == get_selected_recipe_id(a.view)
    IN  IF recipe_id = None THEN a
        ELSE LET recipe == RecipeModel_get_recipe_by_id(a.db, recipe_id[1])
             IN  IF recipe # None
                 THEN [a EXCEPT !.view =
                          set_mode(show_recipe_details(@, recipe[1]), "edit")]
                 ELSE a

\* A save handler that stores the form's texts as typed.
save_edited_recipe_Unstripped(a) ==
    LET recipe_id == get_current_recipe_id(a.view)
        inp == get_input_data(a.view)
    IN  IF recipe_id = None THEN a
        ELSE LET b == Call_update_recipe(
                          a, Recipe(recipe_id[1], inp[1], inp[2], inp[3], inp[4]))
             IN  [refresh_recipe_list(b) EXCEPT !.view = set_mode(@, "view")]

\* A save handler that does not reload the saved recipe into the form.
save_edited_recipe_NoReload(a) ==
    LET recipe_id == get_current_recipe_id(a.view)
        inp == get_input_data(a.view)
    IN  IF recipe_id = None THEN a
        ELSE IF strip(inp[1]) = <<>> THEN a
        ELSE LET updated_recipe == Recipe(recipe_id[1], strip(inp[1]),
                                          strip(inp[2]), strip(inp[3]), inp[4])
                 b == refresh_recipe_list(Call_update_recipe(a, updated_recipe))
             IN  [b EXCEPT !.view = set_mode(@, "view")]

\* A save handler that does not refresh the list.
save_edited_recipe_NoRefresh(a) ==
    LET recipe_id == get_current_recipe_id(a.view)
        inp == get_input_data(a.view)
    IN  IF recipe_id = None THEN a
        ELSE IF strip(inp[1]) = <<>> THEN a
        ELSE LET updated_recipe == Recipe(recipe_id[1], strip(inp[1]),
                                          strip(inp[2]), strip(inp[3]), inp[4])
                 b == Call_update_recipe(a, updated_recipe)
                 recipe == RecipeModel_get_recipe_by_id(b.db, recipe_id[1])
                 c == IF recipe # None
                      THEN [b EXCEPT !.view = show_recipe_details(@, recipe[1])]
                      ELSE b
             IN  [c EXCEPT !.view = set_mode(@, "view")]

\* RecipeController.save_edited_recipe
RecipeController_save_edited_recipe(a) ==
    LET recipe_id == get_current_recipe_id(a.view)
        inp == get_input_data(a.view)
    IN  IF recipe_id = None THEN a
        ELSE IF strip(inp[1]) = <<>> THEN a
        ELSE LET updated_recipe == Recipe(recipe_id[1], strip(inp[1]),
                                          strip(inp[2]), strip(inp[3]), inp[4])
                 b == refresh_recipe_list(Call_update_recipe(a, updated_recipe))
                 recipe == RecipeModel_get_recipe_by_id(b.db, recipe_id[1])
                 c == IF recipe # None
                      THEN [b EXCEPT !.view = show_recipe_details(@, recipe[1])]
                      ELSE b
             IN  [c EXCEPT !.view = set_mode(@, "view")]

\* A cancel handler that keeps the form as edited.
cancel_edit_KeepEdits(a) ==
    LET recipe_id == get_current_recipe_id(a.view)
        b == IF TruthyId(recipe_id) THEN a
             ELSE [a EXCEPT !.view = clear_inputs(@)]
    IN  [b EXCEPT !.view = set_mode(@, "add")]

\* RecipeController.cancel_edit
RecipeController_cancel_edit(a) ==
    LET recipe_id == get_current_recipe_id(a.view)
        b == IF TruthyId(recipe_id)
             THEN LET recipe == RecipeModel_get_recipe_by_id(a.db, recipe_id[1])
                  IN  IF recipe # None
                      THEN [a EXCEPT !.view = show_recipe_details(@, recipe[1])]
                      ELSE a
             ELSE [a EXCEPT !.view = clear_inputs(@)]
    IN  [b EXCEPT !.view = set_mode(@, "add")]

\* A delete handler that leaves the form as it is.
delete_selected_recipe_NoClear(a) ==
    LET recipe_id == get_selected_recipe_id(a.view)
    IN  IF recipe_id = None THEN a
        ELSE refresh_recipe_list(Call_delete_recipe(a, recipe_id[1]))

\* RecipeController.delete_selected_recipe
RecipeController_delete_selected_recipe(a) ==
    LET recipe_id == get_selected_recipe_id(a.view)
    IN  IF recipe_id = None THEN a
        ELSE LET b == Call_delete_recipe(a, recipe_id[1])
             IN  refresh_recipe_list([b EXCEPT !.view = clear_inputs(@)])

\* A display handler that leaves a form under edit alone.
display_selected_recipe_NotWhileEditing(a) ==
    LET recipe_id == get_selected_recipe_id(a.view)
    IN  IF TruthyId(recipe_id) /\ a.view.mode # "edit"
        THEN LET recipe == RecipeModel_get_recipe_by_id(a.db, recipe_id[1])
             IN  IF recipe # None
                 THEN [a EXCEPT !.view =
                          set_mode(show_recipe_details(@, recipe[1]), "view")]
                 ELSE a
        ELSE a

\* RecipeController.display_selected_recipe
RecipeController_display_selected_recipe(a) ==
    LET recipe_id == get_selected_recipe_id(a.view)
    IN  IF TruthyId(recipe_id)
        THEN LET recipe == RecipeModel_get_recipe_by_id(a.db, recipe_id[1])
             IN  IF recipe # None
                 THEN [a EXCEPT !.view =
                          set_mode(show_recipe_details(@, recipe[1]), "view")]
                 ELSE a
        ELSE a

\* RecipeController.select_image: file_path is what the dialog returned, the
\* empty string when it was dismissed.
RecipeController_select_image(a, file_path) ==
    IF file_path # "" THEN [a EXCEPT !.view = set_image_path(@, file_path)]
    ELSE a

\* RecipeController.__init__: the signals are connected and the list loaded.
RecipeController_init(d, v) == refresh_recipe_list(App(d, v, 0, 0, {}))

(***************************************************************************)
(* main.py: the sample data and the start of the application.              *)
(***************************************************************************)
\* populate_sample_data: two recipes when the store has none; each image path
\* only when its file exists.
populate_sample_data(d, carbonara_exists, cake_exists) ==
    IF RecipeModel_get_all_recipes(d) # <<>> THEN d
    ELSE RecipeModel_add_recipe(
             RecipeModel_add_recipe(
                 d, CarbonaraTitle, CarbonaraIngredients, CarbonaraInstructions,
                 IF carbonara_exists THEN Some(CarbonaraImg) ELSE None),
             CakeTitle, CakeIngredients, CakeInstructions,
             IF cake_exists THEN Some(CakeImg) ELSE None)

\* main(): store, view, controller, sample data, refresh.
main(carbonara_exists, cake_exists) ==
    LET a == RecipeController_init(create_table, RecipeMainWindow_init)
    IN  refresh_recipe_list(
            [a EXCEPT !.db = populate_sample_data(@, carbonara_exists,
                                                  cake_exists)])

(***************************************************************************)
(* The state machine.  ret is what the last repository call returned and   *)
(* last names the last operation: its name, the mode it found, the id it   *)
(* was given, and whether it is an add intent that directly followed an    *)
(* add intent.                                                             *)
(***************************************************************************)
VARIABLES db, view, added, removed, deleted, ret, last

vars == <<db, view, added, removed, deleted, ret, last>>

Now == App(db, view, added, removed, deleted)

Is(a) ==
    /\ db = a.db
    /\ view = a.view
    /\ added = a.added
    /\ removed = a.removed
    /\ deleted = a.deleted

Becomes(a) ==
    /\ db' = a.db
    /\ view' = a.view
    /\ added' = a.added
    /\ removed' = a.removed
    /\ deleted' = a.deleted

RetNone == [kind |-> "None", val |-> None]
RetRecipe(r) == [kind |-> IF r = None THEN "None" ELSE "Recipe", val |-> r]
RetList(l) == [kind |-> "list", val |-> l]

Op(name, id) ==
    [op |-> name, mode |-> view.mode, id |-> id,
     again |-> name = "add" /\ last.op = "add"]

\* The controller built over a new, empty store.
InitEmpty ==
    /\ Is(RecipeController_init(create_table, RecipeMainWindow_init))
    /\ ret = RetNone
    /\ last = [op |-> "init", mode |-> "add", id |-> None, again |-> FALSE]

\* The application started by main() on a new store: the samples are in.
InitMain ==
    /\ \E carbonara_exists \in BOOLEAN, cake_exists \in BOOLEAN :
          Is(main(carbonara_exists, cake_exists))
    /\ ret = RetNone
    /\ last = [op |-> "init", mode |-> "add", id |-> None, again |-> FALSE]

Init == InitEmpty \/ InitMain

(***************************************************************************)
(* The repository called directly (RecipeModel's five methods).            *)
(***************************************************************************)
RecipeInputs ==
    {Recipe(id, f[1], f[2], f[3], p) : id \in IdInputs, f \in FormInputs,
                                       p \in ImageInputs}

Repo_add_recipe(title, ingredients, instructions, image_path) ==
    /\ db.seq < MaxId
    /\ Becomes(Call_add_recipe(Now, title, ingredients, instructions, image_path))
    /\ ret' = [kind |-> "None", val |-> RecipeModel_add_recipe_result(db)]
    /\ last' = Op("add_recipe", None)

Repo_get_all_recipes ==
    /\ ret' = RetList(RecipeModel_get_all_recipes(db))
    /\ last' = Op("get_all_recipes", None)
    /\ UNCHANGED <<db, view, added, removed, deleted>>

Repo_get_recipe_by_id(recipe_id) ==
    /\ ret' = RetRecipe(RecipeModel_get_recipe_by_id(db, recipe_id))
    /\ last' = Op("get_recipe_by_id", Some(recipe_id))
    /\ UNCHANGED <<db, view, added, removed, deleted>>

Repo_update_recipe(recipe) ==
    /\ Becomes(Call_update_recipe(Now, recipe))
    /\ ret' = RetNone
    /\ last' = Op("update_recipe", Some(recipe.id))

Repo_delete_recipe(recipe_id) ==
    /\ Becomes(Call_delete_recipe(Now, recipe_id))
    /\ ret' = RetNone
    /\ last' = Op("delete_recipe", Some(recipe_id))

NextRepo ==
    \/ \E f \in FormInputs, p \in ImageInputs : Repo_add_recipe(f[1], f[2], f[3], p)
    \/ Repo_get_all_recipes
    \/ \E recipe_id \in IdInputs : Repo_get_recipe_by_id(recipe_id)
    \/ \E recipe \in RecipeInputs : Repo_update_recipe(recipe)
    \/ \E recipe_id \in IdInputs : Repo_delete_recipe(recipe_id)

SpecRepo == InitEmpty /\ [][NextRepo]_vars

(***************************************************************************)
(* The user's intents, each running its handler to the end.                *)
(***************************************************************************)
\* The user types into the three text widgets (no signal of theirs is
\* connected).
TypeForm(f) ==
    /\ view' = [view EXCEPT !.title_input = f[1], !.ingredients_input = f[2],
                            !.instructions_input = f[3]]
    /\ last' = Op("type", None)
    /\ UNCHANGED <<db, added, removed, deleted, ret>>

\* image_button.clicked
SelectImage(file_path) ==
    /\ Becomes(RecipeController_select_image(Now, file_path))
    /\ last' = Op("select_image", None)
    /\ UNCHANGED ret

\* add_button.clicked
AddRecipe ==
    /\ RecipeController_add_recipe(Now).added = added \/ db.seq < MaxId
    /\ Becomes(RecipeController_add_recipe(Now))
    /\ last' = Op("add", None)
    /\ UNCHANGED ret

\* edit_button.clicked
EditSelectedRecipe ==
    /\ Becomes(RecipeController_edit_selected_recipe(Now))
    /\ last' = Op("edit", get_selected_recipe_id(view))
    /\ UNCHANGED ret

\* save_button.clicked
SaveEditedRecipe ==
    /\ Becomes(RecipeController_save_edited_recipe(Now))
    /\ last' = Op("save", get_current_recipe_id(view))
    /\ UNCHANGED ret

\* cancel_button.clicked
CancelEdit ==
    /\ Becomes(RecipeController_cancel_edit(Now))
    /\ last' = Op("cancel", get_current_recipe_id(view))
    /\ UNCHANGED ret

\* delete_button.clicked
DeleteSelectedRecipe ==
    /\ Becomes(RecipeController_delete_selected_recipe(Now))
    /\ last' = Op("delete", get_selected_recipe_id(view))
    /\ UNCHANGED ret

\* The user picks row k of the list: it becomes the current item and
\* recipe_list.itemSelectionChanged runs display_selected_recipe.
SelectInList(k) ==
    /\ k \in 1..Len(view.recipe_list)
    /\ Becomes(RecipeController_display_selected_recipe(
                   [Now EXCEPT !.view.current_row = k]))
    /\ last' = Op("select", Some(view.recipe_list[k].id))
    /\ UNCHANGED ret

Next ==
    \/ \E f \in FormInputs : TypeForm(f)
    \/ \E file_path \in ImagePaths \cup {""} : SelectImage(file_path)
    \/ AddRecipe
    \/ EditSelectedRecipe
    \/ SaveEditedRecipe
    \/ CancelEdit
    \/ DeleteSelectedRecipe
    \/ \E k \in 1..MaxId : SelectInList(k)

Spec == Init /\ [][Next]_vars

(***************************************************************************)
(* The same intents when every button click goes through the button's      *)
(* enabled state, as set_mode leaves it: a disabled QPushButton emits no    *)
(* clicked signal.  Edit and Delete are never disabled.                     *)
(***************************************************************************)
ClickAdd == view.add_enabled /\ AddRecipe

ClickSave == view.save_enabled /\ SaveEditedRecipe

ClickCancel == view.cancel_enabled /\ CancelEdit

NextClicks ==
    \/ \E f \in FormInputs : TypeForm(f)
    \/ \E file_path \in ImagePaths \cup {""} : SelectImage(file_path)
    \/ ClickAdd
    \/ EditSelectedRecipe
    \/ ClickSave
    \/ ClickCancel
    \/ DeleteSelectedRecipe
    \/ \E k \in 1..MaxId : SelectInList(k)

SpecClicks == Init /\ [][NextClicks]_vars

(***************************************************************************)
(* Properties of the repository (checked under SpecRepo).                  *)
(***************************************************************************)
Ids(d) == RowIds(d.rows)

\* The ids a step has put into the table.
NewIds == Ids(db') \ Ids(db)

IdsAscend(d) ==
    \A j \in 1..Len(d.rows), k \in 1..Len(d.rows) :
        j < k => d.rows[j][1] < d.rows[k][1]

Blank(text) == strip(text) = <<>>

\* C1: every id the store assigns to a new row is greater than every id it
\* assigned before: it exceeds every id in the table and the largest id ever
\* handed out (seq, which never decreases and bounds every id in the table),
\* so the ids in the table are pairwise distinct and the id of a deleted row
\* does not come back.
C1_IdsStrictlyIncrease ==
    [][ /\ \A id \in NewIds :
              /\ id > db.seq
              /\ \A old \in Ids(db) : id > old
        /\ db'.seq >= db.seq
        /\ \A id \in Ids(db') : id <= db'.seq
        /\ IdsAscend(db') ]_vars

\* C1 witness: id 1 was assigned and deleted, and the next add got id 2.
C1_Witness ==
    /\ last.op = "add_recipe"
    /\ 1 \in deleted
    /\ Ids(db) = {2}
    /\ removed = 1

\* C3 as stated: the repository's add_recipe with a blank title leaves
\* get_all_recipes() as it was.
C3_BlankAddCreatesNoRow ==
    [][ \A f \in FormInputs, p \in ImageInputs :
            (Blank(f[1]) /\ Repo_add_recipe(f[1], f[2], f[3], p))
            => RecipeModel_get_all_recipes(db') = RecipeModel_get_all_recipes(db)
      ]_vars

\* C3 as amended: the repository's add_recipe does not look at the title; with
\* a blank title too it appends exactly one row, holding the title as given,
\* and leaves the rows before it as they were.
C3_BlankAddAppendsRow ==
    [][ \A f \in FormInputs, p \in ImageInputs :
            (Blank(f[1]) /\ Repo_add_recipe(f[1], f[2], f[3], p))
            => /\ Len(RecipeModel_get_all_recipes(db'))
                    = Len(RecipeModel_get_all_recipes(db)) + 1
               /\ SubSeq(RecipeModel_get_all_recipes(db'), 1, Len(db.rows))
                    = RecipeModel_get_all_recipes(db)
               /\ RecipeModel_get_all_recipes(db')[Len(db.rows) + 1].title = f[1]
      ]_vars

\* C3 witness: add_recipe has just stored a row whose title is blank.
C3_Witness ==
    /\ last.op = "add_recipe"
    /\ db.rows # <<>>
    /\ Blank(db.rows[Len(db.rows)][2])
    /\ db.rows[Len(db.rows)][1] = db.seq

\* C4 as stated: right after add_recipe(t, i, s, p), get_recipe_by_id of the
\* new id has the stripped texts and p.
C4_AddRoundTripStripped ==
    [][ \A f \in FormInputs, p \in ImageInputs :
            Repo_add_recipe(f[1], f[2], f[3], p)
            => \A id \in NewIds :
                  RecipeModel_get_recipe_by_id(db', id)
                      = Some(Recipe(id, strip(f[1]), strip(f[2]), strip(f[3]), p))
      ]_vars

\* C4 as amended: right after add_recipe(t, i, s, p) exactly one id is new,
\* and get_recipe_by_id of it has title t, ingredients i, instructions s and
\* image_path p, each exactly as passed (the repository strips nothing).
C4_AddRoundTripVerbatim ==
    [][ \A f \in FormInputs, p \in ImageInputs :
            Repo_add_recipe(f[1], f[2], f[3], p)
            => /\ Cardinality(NewIds) = 1
               /\ \A id \in NewIds :
                     RecipeModel_get_recipe_by_id(db', id)
                         = Some(Recipe(id, f[1], f[2], f[3], p))
      ]_vars

\* C4 witness: add_recipe has just stored texts with whitespace around them
\* and an image path.
C4_Witness ==
    /\ last.op = "add_recipe"
    /\ db.rows # <<>>
    /\ db.rows[Len(db.rows)][1] = db.seq
    /\ db.rows[Len(db.rows)][2] = PaddedTitle
    /\ db.rows[Len(db.rows)][3] # strip(db.rows[Len(db.rows)][3])
    /\ db.rows[Len(db.rows)][5] # None

\* C5: from an empty store, the length of get_all_recipes() is the number of
\* add_recipe calls (each inserts a row) minus the number of delete_recipe
\* calls whose id had a row; updates, reads and deletes of absent ids leave
\* the count alone.
C5_ListLength ==
    Len(RecipeModel_get_all_recipes(db)) = added - removed

\* C5 witness: two adds, one delete that removed a row, a delete of an id with
\* no row, then an update.
C5_Witness ==
    /\ added = 2
    /\ removed = 1
    /\ Cardinality(deleted) = 2
    /\ last.op = "update_recipe"
    /\ Len(db.rows) = 1

\* C6 as stated: an id delete_recipe was called with is absent in every later
\* state.
C6_DeletedIdAbsentForever ==
    \A id \in deleted : RecipeModel_get_recipe_by_id(db, id) = None

\* C6 as amended: right after delete_recipe(id), get_recipe_by_id(id) is
\* absent; an id the store has handed out (id <= seq) that is absent stays
\* absent in every later state; and delete_recipe of an id with no row changes
\* nothing in the store and returns normally.  (An id not yet handed out when
\* it was deleted can still be assigned by a later add.)
C6_DeleteFinal ==
    [][ /\ \A id \in IdInputs :
              Repo_delete_recipe(id)
              => /\ RecipeModel_get_recipe_by_id(db', id) = None
                 /\ id \notin Ids(db) => (db' = db /\ ret' = RetNone)
        /\ \A id \in IdInputs :
              (id <= db.seq /\ RecipeModel_get_recipe_by_id(db, id) = None)
              => RecipeModel_get_recipe_by_id(db', id) = None ]_vars

\* C6 witness: id 1 was deleted, a later add got id 2, and delete_recipe(1)
\* has just run.
C6_Witness ==
    /\ last.op = "delete_recipe"
    /\ last.id = Some(1)
    /\ 1 \in deleted
    /\ Ids(db) = {2}

\* C7: update_recipe(recipe) applied to the store it has just produced leaves
\* the whole store as it is.
C7_UpdateIdempotent ==
    [][ \A recipe \in RecipeInputs :
            Repo_update_recipe(recipe)
            => RecipeModel_update_recipe(db', recipe) = db' ]_vars

\* C7 witness: an update has just rewritten row 1 of a two-row store.
C7_Witness ==
    /\ last.op = "update_recipe"
    /\ last.id = Some(1)
    /\ Len(db.rows) = 2
    /\ db.rows[1][2] = PlainTitle
    /\ db.rows[2][2] = PaddedTitle

\* C8: update_recipe(recipe) touches at most the row with recipe.id: with no
\* such row the store is unchanged and the call returns normally; otherwise
\* that row gets the recipe's title, ingredients, instructions and image_path
\* and keeps its id, and the ids in the store and every other row stay.
C8_UpdateFrame ==
    [][ \A recipe \in RecipeInputs :
            Repo_update_recipe(recipe)
            => /\ Ids(db') = Ids(db)
               /\ Len(db'.rows) = Len(db.rows)
               /\ db'.seq = db.seq
               /\ ret' = RetNone
               /\ recipe.id \notin Ids(db) => db' = db
               /\ \A k \in 1..Len(db.rows) :
                     IF db.rows[k][1] = recipe.id
                     THEN db'.rows[k] = <<recipe.id, recipe.title,
                                          recipe.ingredients,
                                          recipe.instructions,
                                          recipe.image_path>>
                     ELSE db'.rows[k] = db.rows[k] ]_vars

\* C8 witness: an update has just rewritten row 2 of a two-row store whose
\* row 1 holds other texts.
C8_Witness ==
    /\ last.op = "update_recipe"
    /\ last.id = Some(2)
    /\ Len(db.rows) = 2
    /\ db.rows[2][2] = BlankText
    /\ db.rows[1][2] = PaddedTitle

\* C9 as stated: add_recipe returns the id of the row it appended.
C9_AddReturnsId ==
    last.op = "add_recipe" => ret.val = Some(db.rows[Len(db.rows)][1])

\* C9 as amended: add_recipe (and insert_recipe under it) returns None; the id
\* newly assigned to the appended row reaches the caller only through
\* get_all_recipes(), where it is the id of the last row.
C9_AddReturnsNone ==
    [][ \A f \in FormInputs, p \in ImageInputs :
            Repo_add_recipe(f[1], f[2], f[3], p)
            => /\ ret' = RetNone
               /\ NewIds = {RecipeModel_get_all_recipes(db')[Len(db'.rows)].id}
      ]_vars

\* C9 witness: the second add has returned.
C9_Witness ==
    /\ last.op = "add_recipe"
    /\ ret = RetNone
    /\ Ids(db) = {1, 2}

(***************************************************************************)
(* Properties of the controller (checked under Spec).                      *)
(***************************************************************************)
FormCleared(v) ==
    /\ v.title_input = <<>>
    /\ v.ingredients_input = <<>>
    /\ v.instructions_input = <<>>
    /\ v.selected_image_path = None

\* C2: every row in the store has a title that is not empty and equals its own
\* stripped form.
C2_TitlesStripped ==
    \A k \in 1..Len(db.rows) :
        db.rows[k][2] # <<>> /\ strip(db.rows[k][2]) = db.rows[k][2]

\* C2 witness: a title typed with whitespace around it has been saved over a
\* stored recipe.
C2_Witness ==
    /\ last.op = "save"
    /\ view.mode = "view"
    /\ \E k \in 1..Len(db.rows) :
          /\ db.rows[k][2] = strip(PaddedTitle)
          /\ Some(db.rows[k][1]) = view.current_recipe_id

\* C10: an add intent in edit or view mode leaves the store as it is, whatever
\* the form holds, clears the form, drops current_recipe_id and ends in add
\* mode.
C10_StartAdd ==
    [][ (AddRecipe /\ view.mode \in {"edit", "view"})
        => /\ db' = db
           /\ FormCleared(view')
           /\ view'.current_recipe_id = None
           /\ view'.mode = "add" ]_vars

\* C10 witness: the add intent has just run in edit mode over a non-empty
\* store.
C10_Witness ==
    /\ last.op = "add"
    /\ last.mode = "edit"
    /\ view.mode = "add"
    /\ db.rows # <<>>

\* The form shows exactly the recipe's stored values.
FormShows(v, recipe) ==
    /\ v.title_input = recipe.title
    /\ v.ingredients_input = recipe.ingredients
    /\ v.instructions_input = recipe.instructions
    /\ v.selected_image_path = recipe.image_path

Recipes(d) == RecipeModel_get_all_recipes(d)

\* C11: an add intent in add mode with a title that is not blank appends
\* exactly one record, with a new id, the stripped title, ingredients and
\* instructions and the form's image path, leaves every record before it as
\* it was, and ends with the form cleared, no current recipe and mode add.
C11_ConfirmAdd ==
    [][ (AddRecipe /\ view.mode = "add" /\ ~Blank(view.title_input))
        => /\ Len(Recipes(db')) = Len(Recipes(db)) + 1
           /\ SubSeq(Recipes(db'), 1, Len(Recipes(db))) = Recipes(db)
           /\ LET new == Recipes(db')[Len(Recipes(db'))]
              IN  /\ new.id \notin Ids(db)
                  /\ new.title = strip(view.title_input)
                  /\ new.ingredients = strip(view.ingredients_input)
                  /\ new.instructions = strip(view.instructions_input)
                  /\ new.image_path = view.selected_image_path
           /\ FormCleared(view')
           /\ view'.current_recipe_id = None
           /\ view'.mode = "add" ]_vars

\* C11 witness: the add intent, in add mode, has just appended a second
\* record from texts typed with whitespace around them and a picked image.
C11_Witness ==
    /\ last.op = "add"
    /\ last.mode = "add"
    /\ Len(db.rows) = 2
    /\ db.rows[2][2] = strip(PaddedTitle)
    /\ db.rows[2][4] = <<"s">>
    /\ db.rows[2][5] # None
    /\ FormCleared(view)

\* C12: with a blank title in the form, an add intent in add mode and a save
\* intent each change nothing: the store, the mode, current_recipe_id and the
\* form (the whole view) stay as they were.
C12_BlankTitleNoOp ==
    [][ (((AddRecipe /\ view.mode = "add") \/ SaveEditedRecipe)
          /\ Blank(view.title_input))
        => (db' = db /\ view' = view) ]_vars

\* C12 witness: a save intent has just been rejected in edit mode: a recipe is
\* loaded, the title is blank and the other texts are not empty.
C12_Witness ==
    /\ last.op = "save"
    /\ last.id # None
    /\ view.mode = "edit"
    /\ view.title_input = BlankText
    /\ view.ingredients_input # <<>>

\* C13: a save intent with a current recipe and a title that is not blank
\* overwrites the stored recipe with that id, and only it, with the stripped
\* texts and the form's image path, keeps current_recipe_id, shows the stored
\* values in the form and ends in view mode; with no current recipe it changes
\* nothing.
C13_Save ==
    [][ SaveEditedRecipe
        => IF view.current_recipe_id = None
           THEN db' = db /\ view' = view
           ELSE ~Blank(view.title_input)
                => LET id == view.current_recipe_id[1]
                       saved == Recipe(id, strip(view.title_input),
                                       strip(view.ingredients_input),
                                       strip(view.instructions_input),
                                       view.selected_image_path)
                   IN  /\ id \in Ids(db)
                       /\ Len(Recipes(db')) = Len(Recipes(db))
                       /\ \A k \in 1..Len(Recipes(db)) :
                             Recipes(db')[k] =
                                 IF Recipes(db)[k].id = id THEN saved
                                 ELSE Recipes(db)[k]
                       /\ view'.current_recipe_id = view.current_recipe_id
                       /\ FormShows(view', saved)
                       /\ view'.mode = "view" ]_vars

\* C13 witness: a save in edit mode has just stored a title typed with
\* whitespace around it over recipe 1 of a two-recipe store.
C13_Witness ==
    /\ last.op = "save"
    /\ last.mode = "edit"
    /\ last.id = Some(1)
    /\ view.mode = "view"
    /\ Len(db.rows) = 2
    /\ db.rows[1][2] = strip(PaddedTitle)
    /\ db.rows[2][2] # strip(PaddedTitle)
    /\ view.title_input = strip(PaddedTitle)

\* C14: a cancel intent leaves the store as it is and ends in add mode; with a
\* current recipe the form then shows that recipe's stored values, whatever
\* had been typed; with none the form is cleared.
C14_Cancel ==
    [][ CancelEdit
        => /\ db' = db
           /\ view'.mode = "add"
           /\ IF view.current_recipe_id = None
              THEN FormCleared(view')
              ELSE /\ RecipeModel_get_recipe_by_id(
                          db, view.current_recipe_id[1]) # None
                   /\ FormShows(view', RecipeModel_get_recipe_by_id(
                                           db, view.current_recipe_id[1])[1])
      ]_vars

\* C14 witness: an edit of recipe 1 has just been cancelled and the form shows
\* recipe 1 again.
C14_Witness ==
    /\ last.op = "cancel"
    /\ last.mode = "edit"
    /\ last.id = Some(1)
    /\ view.mode = "add"
    /\ db.rows # <<>>
    /\ view.title_input = db.rows[1][2]

\* C15: a begin-edit intent with a list item selected loads that recipe's
\* stored values into the form, makes it the current recipe and ends in edit
\* mode, the store unchanged; with nothing selected it changes nothing.
C15_BeginEdit ==
    [][ EditSelectedRecipe
        => IF get_selected_recipe_id(view) = None
           THEN db' = db /\ view' = view
           ELSE LET id == get_selected_recipe_id(view)[1]
                IN  /\ db' = db
                    /\ RecipeModel_get_recipe_by_id(db, id) # None
                    /\ FormShows(view', RecipeModel_get_recipe_by_id(db, id)[1])
                    /\ view'.current_recipe_id = Some(id)
                    /\ view'.mode = "edit" ]_vars

\* C15 witness: begin-edit has just loaded the selected recipe 2 while no
\* recipe was loaded and the mode was add.
C15_Witness ==
    /\ last.op = "edit"
    /\ last.mode = "add"
    /\ last.id = Some(2)
    /\ view.mode = "edit"
    /\ view.current_recipe_id = Some(2)

\* C16: a delete intent with a list item selected removes that recipe and no
\* other from the store and ends with the form cleared, no current recipe and
\* mode add, whatever the mode was; with nothing selected it changes nothing.
C16_Delete ==
    [][ DeleteSelectedRecipe
        => IF get_selected_recipe_id(view) = None
           THEN db' = db /\ view' = view
           ELSE LET id == get_selected_recipe_id(view)[1]
                IN  /\ id \in Ids(db)
                    /\ Ids(db') = Ids(db) \ {id}
                    /\ \A r \in Ids(db') :
                          RecipeModel_get_recipe_by_id(db', r)
                              = RecipeModel_get_recipe_by_id(db, r)
                    /\ FormCleared(view')
                    /\ view'.current_recipe_id = None
                    /\ view'.mode = "add" ]_vars

\* C16 witness: recipe 1 of two has just been deleted from edit mode.
C16_Witness ==
    /\ last.op = "delete"
    /\ last.mode = "edit"
    /\ last.id = Some(1)
    /\ Ids(db) = {2}
    /\ view.mode = "add"

\* C17: picking a list item, in any mode, loads that recipe's stored values
\* into the form, makes it the current recipe and ends in view mode, the store
\* unchanged.
C17_SelectInList ==
    [][ \A k \in 1..MaxId :
            SelectInList(k)
            => LET id == view.recipe_list[k].id
               IN  /\ db' = db
                   /\ RecipeModel_get_recipe_by_id(db, id) # None
                   /\ FormShows(view', RecipeModel_get_recipe_by_id(db, id)[1])
                   /\ view'.current_recipe_id = Some(id)
                   /\ view'.mode = "view" ]_vars

\* C17 witness: recipe 2 has just been picked while recipe 1 was being edited.
C17_Witness ==
    /\ last.op = "select"
    /\ last.mode = "edit"
    /\ last.id = Some(2)
    /\ view.mode = "view"
    /\ view.current_recipe_id = Some(2)

\* C18: of two add intents with nothing between them, the second inserts
\* nothing (the first cleared the form, or was itself rejected for a blank
\* title), so the two together insert at most one record.
C18_SecondAddInsertsNothing ==
    [][ (AddRecipe /\ last.op = "add") => db' = db ]_vars

\* C18 witness: two add intents in a row have run, the first of which
\* committed the only record of the store.
C18_Witness ==
    /\ last.op = "add"
    /\ last.again
    /\ last.mode = "add"
    /\ added = 1
    /\ Len(db.rows) = 1

\* C19: whenever the add intent inserts a row, no recipe is loaded in the form
\* (current_recipe_id is absent).
C19_AddNeverCopiesLoaded ==
    [][ (AddRecipe /\ added' > added) => view.current_recipe_id = None ]_vars

\* C20: the buttons follow the mode: Save and Cancel are enabled exactly in
\* edit mode, Add exactly in add and view mode; so a save intent through an
\* enabled Save button that changes the store runs in edit mode.
C20_ButtonsFollowMode ==
    /\ [](/\ view.save_enabled = (view.mode = "edit")
          /\ view.cancel_enabled = (view.mode = "edit")
          /\ view.add_enabled = (view.mode \in {"add", "view"}))
    /\ [][ (SaveEditedRecipe /\ view.save_enabled /\ db' # db)
           => view.mode = "edit" ]_vars

\* C20 witness: a save from edit mode has just changed the store and left the
\* view in view mode, Save and Cancel disabled and Add enabled.
C20_Witness ==
    /\ last.op = "save"
    /\ last.mode = "edit"
    /\ view.mode = "view"
    /\ ~view.save_enabled
    /\ ~view.cancel_enabled
    /\ view.add_enabled
    /\ \E k \in 1..Len(db.rows) : db.rows[k][2] = PlainTitle /\ db.rows[k][5] # None

\* C21: in edit and view mode a recipe is loaded (current_recipe_id is set),
\* and a loaded recipe is always one the store still holds.
C21_LoadedRecipeExists ==
    /\ view.mode \in {"edit", "view"} => view.current_recipe_id # None
    /\ view.current_recipe_id # None => view.current_recipe_id[1] \in Ids(db)

\* C21 witness: recipe 1, loaded in view mode, has just been deleted; no
\* recipe is loaded and recipe 2 is still stored.
C21_Witness ==
    /\ last.op = "delete"
    /\ last.mode = "view"
    /\ last.id = Some(1)
    /\ 1 \in deleted
    /\ Ids(db) = {2}
    /\ view.current_recipe_id = None

\* C22: the list the view shows has one item per stored recipe, with the ids
\* and titles of get_all_recipes() in its order.
C22_ListShowsStore ==
    /\ Len(view.recipe_list) = Len(Recipes(db))
    /\ \A k \in 1..Len(view.recipe_list) :
          /\ view.recipe_list[k].id = Recipes(db)[k].id
          /\ view.recipe_list[k].title = Recipes(db)[k].title

\* C22 witness: after an add, a delete and a save, the list shows the one
\* remaining recipe, 2, under its newly saved title.
C22_Witness ==
    /\ last.op = "save"
    /\ last.mode = "edit"
    /\ removed = 1
    /\ Len(db.rows) = 1
    /\ db.rows[1][1] = 2
    /\ db.rows[1][2] = strip(PaddedTitle)
    /\ view.recipe_list = <<[title |-> strip(PaddedTitle), id |-> 2]>>

====
